---- MODULE Spec2Model ----
(***************************************************************************)
(* Model of the browser-automation gateway of                              *)
(* src/mcp-servers/puppeteer/index.ts (class PuppeteerMcpServer).          *)
(*                                                                         *)
(* The server runs on one event loop.  A handler runs atomically from one  *)
(* engine call it awaits to the next; while it waits, other requests, the  *)
(* cleanup timer, the signal handlers, console events and browser crashes  *)
(* may run.  Each action below is one such atomic piece of a handler.  An  *)
(* await of a promise that is already settled (ensureBrowser finding a     *)
(* live session, closeBrowser finding none) resumes before any timer or    *)
(* I/O callback runs, so the handler goes on within the same action.       *)
(*                                                                         *)
(* The automation engine (puppeteer) is a black box: every engine call may *)
(* succeed or throw, and a call on a browser that is no longer connected   *)
(* throws.                                                                 *)
(***************************************************************************)
EXTENDS Integers, Sequences, FiniteSets, TLC

(***************************************************************************)
(* Program constants.                                                      *)
(***************************************************************************)
SESSION_TIMEOUT == 30 * 60 * 1000
LOG_LIMIT == 100
TEXT_LIMIT == 1000

(***************************************************************************)
(* Bounds of the model.                                                    *)
(***************************************************************************)
\* browsers the engine launches in one behaviour
MaxBrowsers == 2
\* the instants at which the clock is read
Instants == {0, SESSION_TIMEOUT, SESSION_TIMEOUT + 1}
\* console events between two resets of the buffer (Spec, SpecSeq)
MaxEvents == 1
\* console events between two resets of the buffer (SpecLog)
MaxLogEvents == 102
\* longest document text
MaxDocLen == 1002
\* console events between two resets of the buffer (SpecRead)
MaxReadEvents == 3

\* the requests that may be in flight together
Requests == {"r1", "r2"}

VARIABLES
    session,      \* this.session: the stored BrowserSession, or NoSession (null)
    consoleLogs,  \* this.consoleLogs
    browsers,     \* engine side: status of every browser launched so far
    req,          \* per request: where its handler is suspended, its locals
    listeners,    \* engine side: browsers whose page has the console listener
    tickPc,       \* the setInterval callback: "idle" or suspended in closeBrowser
    sigPc,        \* the SIGINT/SIGTERM handler: "running", closing, "exited"
    now,          \* Date.now()
    received,     \* history: console entries pushed since the buffer was last reset
    response      \* what the latest step showed: the reply a request got, or the
                  \* decision of the cleanup timer (NoResponse if neither)

vars == <<session, consoleLogs, browsers, listeners, req, tickPc, sigPc, now, received, response>>

(***************************************************************************)
(* Strings are sequences of characters.                                    *)
(***************************************************************************)
HttpPrefix == <<"h", "t", "t", "p", ":", "/", "/">>
HttpsPrefix == <<"h", "t", "t", "p", "s", ":", "/", "/">>
Ellipsis == <<".", ".", ".">>

Urls == { HttpPrefix \o <<"a">>,
          HttpsPrefix \o <<"a">>,
          <<"h", "t", "t", "p", ":", "/", "a">> }

\* String.prototype.startsWith
StartsWith(s, p) == Len(s) >= Len(p) /\ SubSeq(s, 1, Len(p)) = p

Min(a, b) == IF a < b THEN a ELSE b
Max(a, b) == IF a > b THEN a ELSE b

\* String.prototype.substring(start, end): both indices are clamped to
\* [0, length] and swapped when start > end; characters start..end-1.
Substring(s, start, end) ==
    LET a == Max(0, Min(start, Len(s)))
        b == Max(0, Min(end, Len(s)))
    IN SubSeq(s, Min(a, b) + 1, Max(a, b))

\* Array.prototype.slice(-n): the last n elements (all of them if fewer)
SliceLast(s, n) == SubSeq(s, Max(0, Len(s) - n) + 1, Len(s))

\* a document text of length n
DocChar(i) == <<"a", "b", ".">>[(i % 3) + 1]
DocText(n) == [i \in 1..n |-> DocChar(i)]
\* the lengths of the texts a page may hold: around the limit, and short ones
DocLens == {0, 1, TEXT_LIMIT - 1, TEXT_LIMIT, TEXT_LIMIT + 1, MaxDocLen}
ShortDocs == {0, 1}

(***************************************************************************)
(* The session.                                                            *)
(***************************************************************************)
\* this.session = null
NoSession == [browser |-> 0, lastActivity |-> 0]

\* browser.connected
Connected(b) == b \in 1..Len(browsers) /\ browsers[b] = "connected"

\* browsers that were launched and are still running
LiveBrowsers == {b \in 1..Len(browsers) : browsers[b] = "connected"}

\* ensureBrowser without its null check, and launching on every call
NeedsSessionIgnoringNull == session # NoSession /\ ~Connected(session.browser)

NeedsSessionAlways == TRUE

\* the condition of ensureBrowser: !this.session || !this.session.browser.connected
NeedsSession == session = NoSession \/ ~Connected(session.browser)

\* updateActivity()
updateActivity(s, t) == IF s # NoSession THEN [s EXCEPT !.lastActivity = t] ELSE s

\* the timer's condition with twice the timeout, and with >= for >
IdleTooLongTwice(s, t) == s # NoSession /\ t - s.lastActivity > 2 * SESSION_TIMEOUT

IdleTooLongInclusive(s, t) == s # NoSession /\ t - s.lastActivity >= SESSION_TIMEOUT

\* the condition of the cleanup timer
IdleTooLong(s, t) == s # NoSession /\ t - s.lastActivity > SESSION_TIMEOUT

\* the listener keeping the first LOG_LIMIT entries: slice(0, 100)
pushLogKeepOldest(logs, entry) ==
    LET pushed == Append(logs, entry)
    IN IF Len(pushed) > LOG_LIMIT THEN SubSeq(pushed, 1, LOG_LIMIT) ELSE pushed

\* the console listener: push, then keep the last LOG_LIMIT entries
pushLog(logs, entry) ==
    LET pushed == Append(logs, entry)
    IN IF Len(pushed) > LOG_LIMIT THEN SliceLast(pushed, LOG_LIMIT) ELSE pushed

\* navigate's URL validation
ValidUrl(url) == StartsWith(url, HttpPrefix) \/ StartsWith(url, HttpsPrefix)

\* the truncation with >= for >
TruncateTextInclusive(text) ==
    Substring(text, 0, TEXT_LIMIT) \o (IF Len(text) >= TEXT_LIMIT THEN Ellipsis ELSE <<>>)

\* get-text without selector: text.substring(0, 1000) + (text.length > 1000 ? '...' : '')
TruncateText(text) ==
    Substring(text, 0, TEXT_LIMIT) \o (IF Len(text) > TEXT_LIMIT THEN Ellipsis ELSE <<>>)

(***************************************************************************)
(* Requests, replies.                                                      *)
(***************************************************************************)
BrowserTools == {"navigate", "screenshot", "click", "type", "wait-for-element",
                 "evaluate-js", "get-text"}

NoArg == [url |-> <<>>, selector |-> FALSE, flag |-> FALSE, uri |-> "none"]

\* the argument objects a caller may send; flag is fullPage of screenshot and
\* clear of type (default true)
ToolArgs(tool) ==
    CASE tool = "navigate" -> {[NoArg EXCEPT !.url = u] : u \in Urls}
      [] tool = "screenshot" -> {[NoArg EXCEPT !.selector = TRUE]} \cup
                                {[NoArg EXCEPT !.flag = f] : f \in BOOLEAN}
      [] tool = "type" -> {[NoArg EXCEPT !.selector = TRUE, !.flag = f] : f \in BOOLEAN}
      [] tool = "get-text" -> {[NoArg EXCEPT !.selector = s] : s \in BOOLEAN}
      [] OTHER -> {[NoArg EXCEPT !.selector = TRUE]}

\* the first page operation of a tool, and the one after it ("none" if there is none)
FirstOp(tool, arg) ==
    CASE tool = "navigate" -> "goto"
      [] tool = "screenshot" -> IF arg.selector THEN "$" ELSE "page.screenshot"
      [] tool = "click" -> "click"
      [] tool = "type" -> IF arg.flag THEN "click" ELSE "type"
      [] tool = "wait-for-element" -> "waitForSelector"
      [] tool = "evaluate-js" -> "evaluate"
      [] tool = "get-text" -> IF arg.selector THEN "$" ELSE "evaluate"

SecondOp(tool, arg) ==
    CASE tool = "screenshot" /\ arg.selector -> "element.screenshot"
      [] tool = "type" /\ arg.flag -> "type"
      [] tool = "get-text" /\ arg.selector -> "$eval"
      [] OTHER -> "none"

Idle == [pc |-> "idle", tool |-> "none", arg |-> NoArg, browser |-> 0, target |-> 0,
         calls |-> {}]

NoResponse == [to |-> "none", tool |-> "none", arg |-> NoArg, kind |-> "none",
               code |-> "none", cause |-> "none", text |-> <<>>, calls |-> {},
               got |-> <<>>]

\* the content a successful tool call returns
ResultText(tool, arg, text) ==
    CASE tool = "navigate" -> <<"Successfully navigated to ", arg.url>>
      [] tool = "screenshot" ->
            IF arg.selector THEN <<"Screenshot taken of element: ">>
            ELSE IF arg.flag THEN <<"Screenshot taken of full page">>
            ELSE <<"Screenshot taken of viewport">>
      [] tool = "click" -> <<"Successfully clicked element: ">>
      [] tool = "type" -> <<"Successfully typed">>
      [] tool = "wait-for-element" -> <<"Element found: ">>
      [] tool = "evaluate-js" -> <<"JavaScript executed successfully. Result: ">>
      [] tool = "get-text" ->
            IF arg.selector THEN <<"Text from selector: ", text>>
            ELSE <<"Page text: ", TruncateText(text)>>
      [] tool = "close-browser" -> <<"Browser session closed">>

\* the reply of a handler that returns
Return(r, rq, text) ==
    [to |-> r, tool |-> rq.tool, arg |-> rq.arg, kind |-> "ok",
     code |-> "none", cause |-> "none", text |-> text, calls |-> rq.calls,
     got |-> <<>>]

\* the error as it was thrown, had the catch not wrapped it
ThrowUnwrapped(r, rq, cause) ==
    [to |-> r, tool |-> rq.tool, arg |-> rq.arg, kind |-> "error",
     code |-> CASE cause = "UnknownTool" -> "MethodNotFound"
                [] cause = "UnknownResource" -> "InvalidRequest"
                [] cause = "SessionCreation" -> "InternalError"
                [] OTHER -> "Error",
     cause |-> cause, text |-> <<>>, calls |-> rq.calls, got |-> <<>>]

\* the reply of a handler when something throws inside its try block: the catch
\* of both handlers wraps every error in McpError(ErrorCode.InternalError)
Throw(r, rq, cause) ==
    [to |-> r, tool |-> rq.tool, arg |-> rq.arg, kind |-> "error",
     code |-> "InternalError", cause |-> cause, text |-> <<>>, calls |-> rq.calls,
     got |-> <<>>]

\* the cleanup timer ran and closes the session ("evict") or leaves it ("skip")
TimerRan(kind) == [NoResponse EXCEPT !.to = "timer", !.kind = kind]

\* the element check left out
ElementMissingNever(out) == FALSE

\* `if (!element)` of screenshot and get-text; out is what page.$ resolved to
ElementMissing(out) == out = "null"

\* what an engine call on browser b may resolve to
Outcomes(op, b) ==
    IF Connected(b)
    THEN {"ok", "throw"} \cup (IF op = "$" THEN {"null"} ELSE {})
    ELSE {"throw"}

\* Array.prototype.join('\n')
\* the entries one after the other, nothing between them
JoinNoSeparator(logs) == logs

RECURSIVE Join(_)
Join(logs) ==
    IF logs = <<>> THEN <<>>
    ELSE IF Len(logs) = 1 THEN <<logs[1]>>
    ELSE <<logs[1], "\n">> \o Join(Tail(logs))

(***************************************************************************)
(* Init: the state after the constructor and run().                        *)
(***************************************************************************)
Init ==
    /\ session = NoSession
    /\ consoleLogs = <<>>
    /\ browsers = <<>>
    /\ listeners = {}
    /\ req = [r \in Requests |-> Idle]
    /\ tickPc = "idle"
    /\ sigPc = "running"
    /\ now = 0
    /\ received = <<>>
    /\ response = NoResponse

Alive == sigPc # "exited"

(***************************************************************************)
(* The CallTool handler, browser tools.                                    *)
(***************************************************************************)
\* The handler from the return of ensureBrowser to its next await: rq is the
\* request, s the session it finds.  Gives the request's next record and the
\* reply, if it throws.
AfterEnsure(r, rq, s) ==
    IF rq.tool = "navigate" /\ ~ValidUrl(rq.arg.url)
    THEN [rq |-> Idle, resp |-> Throw(r, rq, "UrlScheme")]
    ELSE IF s = NoSession
    THEN [rq |-> Idle, resp |-> Throw(r, rq, "NullSession")]
    ELSE [rq |-> [rq EXCEPT !.pc = "op1", !.target = s.browser,
                            !.calls = @ \cup {FirstOp(rq.tool, rq.arg)}],
          resp |-> NoResponse]

\* a request for a browser tool arrives: ensureBrowser, then either
\* puppeteer.launch() is awaited or the handler goes on to its page operation
CallTool(r, tool, arg) ==
    /\ Alive
    /\ req[r].pc = "idle"
    /\ LET rq == [Idle EXCEPT !.tool = tool, !.arg = arg]
       IN IF NeedsSession
          THEN /\ req' = [req EXCEPT ![r] = [rq EXCEPT !.pc = "launch", !.calls = {"launch"}]]
               /\ response' = NoResponse
          ELSE LET n == AfterEnsure(r, rq, session)
               IN /\ req' = [req EXCEPT ![r] = n.rq]
                  /\ response' = n.resp
    /\ UNCHANGED <<session, consoleLogs, browsers, listeners, tickPc, sigPc, now, received>>

\* createBrowserSession is called again when it has thrown
CreateFailsRetry(r) ==
    /\ req' = [req EXCEPT ![r].pc = "launch", ![r].browser = 0,
                          ![r].calls = @ \cup {"launch"}]
    /\ response' = NoResponse
    /\ UNCHANGED <<session, consoleLogs, browsers, listeners, tickPc, sigPc, now, received>>

\* createBrowserSession throws: wrapped twice, the request fails
CreateFails(r) ==
    /\ req' = [req EXCEPT ![r] = Idle]
    /\ response' = Throw(r, req[r], "SessionCreation")
    /\ UNCHANGED <<session, consoleLogs, browsers, listeners, tickPc, sigPc, now, received>>

\* puppeteer.launch() resolves
LaunchDone(r, ok) ==
    /\ Alive
    /\ req[r].pc = "launch"
    /\ IF ok
       THEN /\ Len(browsers) < MaxBrowsers
            /\ browsers' = Append(browsers, "connected")
            /\ req' = [req EXCEPT ![r].pc = "newPage", ![r].browser = Len(browsers) + 1,
                                  ![r].calls = @ \cup {"newPage"}]
            /\ response' = NoResponse
            /\ UNCHANGED <<session, consoleLogs, listeners, tickPc, sigPc, now, received>>
       ELSE CreateFails(r)

\* browser.newPage(), page.setUserAgent() resolve
SetupDone(r, pc, nextPc, ok) ==
    /\ Alive
    /\ req[r].pc = pc
    /\ IF ok
       THEN /\ Connected(req[r].browser)
            /\ req' = [req EXCEPT ![r].pc = nextPc, ![r].calls = @ \cup {nextPc}]
            /\ response' = NoResponse
            /\ UNCHANGED <<session, consoleLogs, browsers, listeners, tickPc, sigPc, now,
                           received>>
       ELSE CreateFails(r)

NewPageDone(r, ok) == SetupDone(r, "newPage", "setUserAgent", ok)

SetUserAgentDone(r, ok) == SetupDone(r, "setUserAgent", "setViewport", ok)

\* page.setViewport() resolves: the listener is registered, the session stored,
\* ensureBrowser returns and the handler goes on to its page operation
SetViewportDone(r, ok) ==
    /\ Alive
    /\ req[r].pc = "setViewport"
    /\ IF ok
       THEN /\ Connected(req[r].browser)
            /\ listeners' = listeners \cup {req[r].browser}
            /\ session' = [browser |-> req[r].browser, lastActivity |-> now]
            /\ LET n == AfterEnsure(r, [req[r] EXCEPT !.browser = 0], session')
               IN /\ req' = [req EXCEPT ![r] = n.rq]
                  /\ response' = n.resp
            /\ UNCHANGED <<consoleLogs, browsers, tickPc, sigPc, now, received>>
       ELSE CreateFails(r)

\* the handler's last lines: updateActivity(), return the content; text is
\* what the last engine call resolved to
Succeed(r, text) ==
    /\ session' = updateActivity(session, now)
    /\ req' = [req EXCEPT ![r] = Idle]
    /\ response' = [Return(r, req[r], ResultText(req[r].tool, req[r].arg, text))
                       EXCEPT !.got = text]

\* updateActivity() moved into the catch
FailStamping(r, cause) ==
    /\ req' = [req EXCEPT ![r] = Idle]
    /\ response' = Throw(r, req[r], cause)
    /\ session' = updateActivity(session, now)

\* something throws in the try block, before updateActivity()
Fail(r, cause) ==
    /\ req' = [req EXCEPT ![r] = Idle]
    /\ response' = Throw(r, req[r], cause)
    /\ UNCHANGED session

\* the first page operation resolves to out
Op1Done(r, out, docs) ==
    /\ Alive
    /\ req[r].pc = "op1"
    /\ out \in Outcomes(FirstOp(req[r].tool, req[r].arg), req[r].target)
    /\ LET tool == req[r].tool
           arg == req[r].arg
           second == SecondOp(tool, arg)
       IN IF out = "throw" THEN Fail(r, "Engine")
          ELSE IF ElementMissing(out) THEN Fail(r, "ElementNotFound")
          ELSE IF second = "none"
          THEN \E n \in (IF tool = "get-text" THEN docs ELSE {0}) :
                   Succeed(r, DocText(n))
          ELSE IF second = "element.screenshot"
          THEN \* called on the element handle page.$ returned
               /\ req' = [req EXCEPT ![r].pc = "op2", ![r].calls = @ \cup {second}]
               /\ response' = NoResponse
               /\ UNCHANGED session
          ELSE IF session = NoSession
          THEN Fail(r, "NullSession")
          ELSE /\ req' = [req EXCEPT ![r].pc = "op2", ![r].target = session.browser,
                                     ![r].calls = @ \cup {second}]
               /\ response' = NoResponse
               /\ UNCHANGED session
    /\ UNCHANGED <<consoleLogs, browsers, listeners, tickPc, sigPc, now, received>>

\* the second page operation resolves to out
Op2Done(r, out) ==
    /\ Alive
    /\ req[r].pc = "op2"
    /\ out \in Outcomes(SecondOp(req[r].tool, req[r].arg), req[r].target)
    /\ IF out = "throw" THEN Fail(r, "Engine")
       ELSE \E n \in (IF req[r].tool = "get-text" THEN {0, 1} ELSE {0}) :
                Succeed(r, DocText(n))
    /\ UNCHANGED <<consoleLogs, browsers, listeners, tickPc, sigPc, now, received>>

(***************************************************************************)
(* closeBrowser, called by the close-browser tool, the cleanup timer and   *)
(* the signal handlers.                                                    *)
(***************************************************************************)
\* closeBrowser up to its await: this.session.browser.close() is called; it
\* closes the browser (ok) or will throw
closeBrowserCall(ok) ==
    browsers' = IF ok /\ session.browser \in 1..Len(browsers)
                THEN [browsers EXCEPT ![session.browser] = "closed"]
                ELSE browsers

ClosingPc(ok) == IF ok THEN "closing" ELSE "closeFailed"

ClosingPcs == {"closing", "closeFailed"}

\* closeBrowser after its await (the catch only logs)
closeBrowserFinish ==
    /\ session' = NoSession
    /\ consoleLogs' = <<>>
    /\ received' = <<>>

\* closeBrowser without its `if (this.session)`: close is called, and what it
\* throws is caught, whatever is stored
CloseBrowserToolUnguarded(r, ok) ==
    /\ Alive
    /\ req[r].pc = "idle"
    /\ closeBrowserCall(ok)
    /\ req' = [req EXCEPT ![r] = [Idle EXCEPT !.tool = "close-browser",
                                              !.pc = ClosingPc(ok), !.calls = {"close"}]]
    /\ response' = NoResponse
    /\ UNCHANGED <<session, consoleLogs, listeners, tickPc, sigPc, now, received>>

\* a close-browser request arrives
CloseBrowserTool(r, ok) ==
    /\ Alive
    /\ req[r].pc = "idle"
    /\ LET rq == [Idle EXCEPT !.tool = "close-browser"]
       IN IF session # NoSession
          THEN /\ closeBrowserCall(ok)
               /\ req' = [req EXCEPT ![r] = [rq EXCEPT !.pc = ClosingPc(ok),
                                                       !.calls = {"close"}]]
               /\ response' = NoResponse
          ELSE /\ ok
               /\ req' = req
               /\ response' = Return(r, rq, ResultText("close-browser", NoArg, <<>>))
               /\ UNCHANGED browsers
    /\ UNCHANGED <<session, consoleLogs, listeners, tickPc, sigPc, now, received>>

\* closeBrowser without its catch: what browser.close() throws reaches the
\* handler's catch, the lines after the try are not run
CloseBrowserDoneRethrow(r) ==
    /\ Alive
    /\ req[r].pc \in ClosingPcs
    /\ req' = [req EXCEPT ![r] = Idle]
    /\ IF req[r].pc = "closeFailed"
       THEN /\ response' = Throw(r, req[r], "Engine")
            /\ UNCHANGED <<session, consoleLogs, received>>
       ELSE /\ closeBrowserFinish
            /\ response' = Return(r, req[r], ResultText("close-browser", NoArg, <<>>))
    /\ UNCHANGED <<browsers, listeners, tickPc, sigPc, now>>

\* browser.close() settles for the close-browser tool
CloseBrowserDone(r) ==
    /\ Alive
    /\ req[r].pc \in ClosingPcs
    /\ closeBrowserFinish
    /\ req' = [req EXCEPT ![r] = Idle]
    /\ response' = Return(r, req[r], ResultText("close-browser", NoArg, <<>>))
    /\ UNCHANGED <<browsers, listeners, tickPc, sigPc, now>>

\* ensureBrowser() moved before the switch: an unknown name gets a session too
UnknownToolEnsuring(r) ==
    /\ Alive
    /\ req[r].pc = "idle"
    /\ IF NeedsSession
       THEN /\ req' = [req EXCEPT ![r] = [Idle EXCEPT !.tool = "unknown", !.pc = "launch",
                                                      !.calls = {"launch"}]]
            /\ response' = NoResponse
       ELSE /\ req' = req
            /\ response' = Throw(r, [Idle EXCEPT !.tool = "unknown"], "UnknownTool")
    /\ UNCHANGED <<session, consoleLogs, browsers, listeners, tickPc, sigPc, now, received>>

\* the default branch of the CallTool switch
UnknownTool(r) ==
    /\ Alive
    /\ req[r].pc = "idle"
    /\ response' = Throw(r, [Idle EXCEPT !.tool = "unknown"], "UnknownTool")
    /\ UNCHANGED <<session, consoleLogs, browsers, listeners, req, tickPc, sigPc, now,
                   received>>

\* a timer that leaves the session alone while a request is in flight
CleanupTickGuarded(ok) ==
    /\ Alive
    /\ tickPc = "idle"
    /\ IF IdleTooLong(session, now) /\ \A r \in Requests : req[r].pc = "idle"
       THEN /\ closeBrowserCall(ok)
            /\ tickPc' = ClosingPc(ok)
            /\ response' = TimerRan("evict")
       ELSE /\ ok
            /\ response' = TimerRan("skip")
            /\ UNCHANGED <<browsers, tickPc>>
    /\ UNCHANGED <<session, consoleLogs, listeners, req, sigPc, now, received>>

\* the setInterval callback fires
CleanupTick(ok) ==
    /\ Alive
    /\ tickPc = "idle"
    /\ IF IdleTooLong(session, now)
       THEN /\ closeBrowserCall(ok)
            /\ tickPc' = ClosingPc(ok)
            /\ response' = TimerRan("evict")
       ELSE /\ ok
            /\ response' = TimerRan("skip")
            /\ UNCHANGED <<browsers, tickPc>>
    /\ UNCHANGED <<session, consoleLogs, listeners, req, sigPc, now, received>>

\* browser.close() settles for the cleanup timer
CleanupDone ==
    /\ Alive
    /\ tickPc \in ClosingPcs
    /\ closeBrowserFinish
    /\ tickPc' = "idle"
    /\ response' = NoResponse
    /\ UNCHANGED <<browsers, listeners, req, sigPc, now>>

\* process.exit(0): the suspended handlers are gone with the process
Exit ==
    /\ sigPc' = "exited"
    /\ req' = [r \in Requests |-> Idle]
    /\ tickPc' = "idle"
    /\ response' = NoResponse

\* SIGINT or SIGTERM arrives
Signal(ok) ==
    /\ sigPc = "running"
    /\ IF session # NoSession
       THEN /\ closeBrowserCall(ok)
            /\ sigPc' = ClosingPc(ok)
            /\ response' = NoResponse
            /\ UNCHANGED <<req, tickPc>>
       ELSE /\ ok
            /\ Exit
            /\ UNCHANGED browsers
    /\ UNCHANGED <<session, consoleLogs, listeners, now, received>>

\* closeBrowser without its catch, in the signal handler: what browser.close()
\* throws ends the handler before process.exit(0)
SignalDoneOnSuccess ==
    /\ sigPc = "closing"
    /\ closeBrowserFinish
    /\ Exit
    /\ UNCHANGED <<browsers, listeners, now>>

\* browser.close() settles for the signal handler, which exits
SignalDone ==
    /\ sigPc \in ClosingPcs
    /\ closeBrowserFinish
    /\ Exit
    /\ UNCHANGED <<browsers, listeners, now>>

(***************************************************************************)
(* The ReadResource handler.                                               *)
(***************************************************************************)
Uris == {"puppeteer://console-logs", "puppeteer://current-page", "puppeteer://other"}

NoLogsText == <<"No console logs available">>

\* this.consoleLogs.join('\n') || 'No console logs available'
ConsoleLogsText(logs) == IF Join(logs) = <<>> THEN NoLogsText ELSE Join(logs)

NoSessionText == <<"error: No browser session active">>

\* the current-page resource without its test
NoPageNever(s) == FALSE

\* `if (!this.session?.page)` of the current-page resource
NoPage(s) == s = NoSession

ReadResource(r, uri) ==
    /\ Alive
    /\ req[r].pc = "idle"
    /\ LET rq == [Idle EXCEPT !.tool = "read-resource", !.arg = [NoArg EXCEPT !.uri = uri]]
       IN CASE uri = "puppeteer://console-logs" ->
                 /\ response' = Return(r, rq, ConsoleLogsText(consoleLogs))
                 /\ req' = req
            [] uri = "puppeteer://current-page" ->
                 IF NoPage(session)
                 THEN /\ response' = Return(r, rq, NoSessionText)
                      /\ req' = req
                 ELSE /\ response' = NoResponse
                      /\ req' = [req EXCEPT ![r] = [rq EXCEPT !.pc = "title",
                                                             !.target = session.browser,
                                                             !.calls = {"url", "title"}]]
            [] OTHER ->
                 /\ response' = Throw(r, rq, "UnknownResource")
                 /\ req' = req
    /\ UNCHANGED <<session, consoleLogs, browsers, listeners, tickPc, sigPc, now, received>>

\* the ListResources and ListTools handlers: fixed lists
ListResources(r) ==
    /\ Alive
    /\ req[r].pc = "idle"
    /\ response' = Return(r, [Idle EXCEPT !.tool = "list-resources"],
                          <<"puppeteer://console-logs", "puppeteer://current-page">>)
    /\ UNCHANGED <<session, consoleLogs, browsers, listeners, req, tickPc, sigPc, now,
                   received>>

ListTools(r) ==
    /\ Alive
    /\ req[r].pc = "idle"
    /\ response' = Return(r, [Idle EXCEPT !.tool = "list-tools"],
                          <<"navigate", "screenshot", "click", "type", "wait-for-element",
                            "evaluate-js", "get-text", "close-browser">>)
    /\ UNCHANGED <<session, consoleLogs, browsers, listeners, req, tickPc, sigPc, now,
                   received>>

\* the current-page read with an updateActivity() before its return
TitleDoneStamping(r, out) ==
    /\ Alive
    /\ req[r].pc = "title"
    /\ out \in Outcomes("title", req[r].target)
    /\ req' = [req EXCEPT ![r] = Idle]
    /\ response' = IF out = "ok"
                   THEN Return(r, req[r], <<"url", "title", "sessionActive: true">>)
                   ELSE Throw(r, req[r], "Engine")
    /\ session' = IF out = "ok" THEN updateActivity(session, now) ELSE session
    /\ UNCHANGED <<consoleLogs, browsers, listeners, tickPc, sigPc, now, received>>

\* page.title() resolves
TitleDone(r, out) ==
    /\ Alive
    /\ req[r].pc = "title"
    /\ out \in Outcomes("title", req[r].target)
    /\ req' = [req EXCEPT ![r] = Idle]
    /\ response' = IF out = "ok"
                   THEN Return(r, req[r], <<"url", "title", "sessionActive: true">>)
                   ELSE Throw(r, req[r], "Engine")
    /\ UNCHANGED <<session, consoleLogs, browsers, listeners, tickPc, sigPc, now, received>>

(***************************************************************************)
(* The environment: the page's console, the browser process, the clock.    *)
(***************************************************************************)
\* the page of browser b logs to its console; the listener runs
ConsoleEvent(b, cap) ==
    /\ Alive
    /\ b \in listeners
    /\ Connected(b)
    /\ Len(received) < cap
    /\ LET entry == <<b, Len(received) + 1>>
       IN /\ consoleLogs' = pushLog(consoleLogs, entry)
          /\ received' = Append(received, entry)
    /\ response' = NoResponse
    /\ UNCHANGED <<session, browsers, listeners, req, tickPc, sigPc, now>>

\* the browser process of b dies or its connection drops
Disconnect(b) ==
    /\ Alive
    /\ Connected(b)
    /\ browsers' = [browsers EXCEPT ![b] = "disconnected"]
    /\ response' = NoResponse
    /\ UNCHANGED <<session, consoleLogs, listeners, req, tickPc, sigPc, now, received>>

\* time passes
Advance(t) ==
    /\ Alive
    /\ t > now
    /\ now' = t
    /\ response' = NoResponse
    /\ UNCHANGED <<session, consoleLogs, browsers, listeners, req, tickPc, sigPc, received>>

(***************************************************************************)
(* Specifications.                                                         *)
(***************************************************************************)
\* a tool call arrives from a client in R
Call(R, tools) ==
    \/ \E r \in R, tool \in tools : \E arg \in ToolArgs(tool) : CallTool(r, tool, arg)
    \/ \E r \in R, ok \in BOOLEAN : CloseBrowserTool(r, ok)

\* another request arrives from a client in R
Ask(R) ==
    \/ \E r \in R : UnknownTool(r)
    \/ \E r \in R, uri \in Uris : ReadResource(r, uri)
    \/ \E r \in R, out \in {"ok", "throw"} : TitleDone(r, out)
    \/ \E r \in R : ListResources(r)
    \/ \E r \in R : ListTools(r)

\* an engine call of a suspended handler settles
Resume(R, docs) ==
    \/ \E r \in R, ok \in BOOLEAN : LaunchDone(r, ok)
    \/ \E r \in R, ok \in BOOLEAN : NewPageDone(r, ok)
    \/ \E r \in R, ok \in BOOLEAN : SetUserAgentDone(r, ok)
    \/ \E r \in R, ok \in BOOLEAN : SetViewportDone(r, ok)
    \/ \E r \in R, out \in {"ok", "null", "throw"} : Op1Done(r, out, docs)
    \/ \E r \in R, out \in {"ok", "throw"} : Op2Done(r, out)
    \/ \E r \in R : CloseBrowserDone(r)

\* page console, browser process, clock
Environment(cap) ==
    \/ \E b \in 1..MaxBrowsers : ConsoleEvent(b, cap)
    \/ \E b \in 1..MaxBrowsers : Disconnect(b)
    \/ \E t \in Instants : Advance(t)

\* handlers, timer and signal handler suspended in an await
InFlight ==
    Cardinality({r \in Requests : req[r].pc # "idle"})
    + (IF tickPc \in ClosingPcs THEN 1 ELSE 0)
    + (IF sigPc \in ClosingPcs THEN 1 ELSE 0)

Quiet == InFlight = 0

\* One client with one request in flight at a time, interleaved in every way
\* with the cleanup timer and the environment.
Next ==
    \/ Call({"r1"}, BrowserTools)
    \/ Ask({"r1"})
    \/ Resume({"r1"}, ShortDocs)
    \/ \E ok \in BOOLEAN : CleanupTick(ok)
    \/ CleanupDone
    \/ Environment(MaxEvents)

Spec == Init /\ [][Next]_vars

\* One operation at a time: a request, a timer tick or a signal is handled
\* only when the operation before it has finished.
NextSeq ==
    \/ Quiet /\ Call({"r1"}, BrowserTools)
    \/ Quiet /\ Ask({"r1"})
    \/ Resume({"r1"}, ShortDocs)
    \/ Quiet /\ \E ok \in BOOLEAN : CleanupTick(ok)
    \/ CleanupDone
    \/ Quiet /\ \E ok \in BOOLEAN : Signal(ok)
    \/ SignalDone
    \/ Environment(MaxEvents)

SpecSeq == Init /\ [][NextSeq]_vars

\* One client, one operation at a time, the page of the session logging to
\* its console up to and beyond the capacity of the buffer.
NextLog ==
    \/ Quiet /\ Call({"r1"}, {"type"})
    \/ Resume({"r1"}, ShortDocs)
    \/ \E b \in {session.browser} : ConsoleEvent(b, MaxLogEvents)

SpecLog == Init /\ [][NextLog]_vars

\* One client reading the text of pages of every length in DocLens.
NextText ==
    \/ Quiet /\ Call({"r1"}, {"get-text"})
    \/ Resume({"r1"}, DocLens)
    \/ \E b \in 1..MaxBrowsers : Disconnect(b)

SpecText == Init /\ [][NextText]_vars

\* Two clients, their tool calls in flight together; the browser may crash.
NextRace ==
    \/ Call(Requests, {"click", "type"})
    \/ Resume(Requests, ShortDocs)
    \/ \E b \in 1..MaxBrowsers : Disconnect(b)

SpecRace == Init /\ [][NextRace]_vars

\* One client and the signal handlers, interleaved in every way.
NextSignal ==
    \/ Call({"r1"}, BrowserTools)
    \/ Resume({"r1"}, ShortDocs)
    \/ \E ok \in BOOLEAN : Signal(ok)
    \/ SignalDone
    \/ Environment(MaxEvents)

SpecSignal == Init /\ [][NextSignal]_vars

\* One client typing, closing and reading the resources, its page logging.
NextRead ==
    \/ Quiet /\ Call({"r1"}, {"type"})
    \/ Ask({"r1"})
    \/ Resume({"r1"}, ShortDocs)
    \/ \E b \in {session.browser} : ConsoleEvent(b, MaxReadEvents)

SpecRead == Init /\ [][NextRead]_vars

\* One client typing and closing, the cleanup timer and the signal handlers,
\* interleaved in every way.
NextClose ==
    \/ Call({"r1"}, {"type"})
    \/ Resume({"r1"}, ShortDocs)
    \/ \E ok \in BOOLEAN : CleanupTick(ok)
    \/ CleanupDone
    \/ \E ok \in BOOLEAN : Signal(ok)
    \/ SignalDone
    \/ Environment(MaxEvents)

SpecClose == Init /\ [][NextClose]_vars

\* The same, and the engine settles the browser.close() the signal handler
\* awaits.
SpecCloseLive == SpecClose /\ WF_vars(SignalDone)

(***************************************************************************)
(* Properties.                                                             *)
(***************************************************************************)
\* request r starts a tool call of a browser tool in this step
StartsTool(r) ==
    /\ req[r].pc = "idle"
    /\ \/ req'[r].tool \in BrowserTools
       \/ response'.to = r /\ response'.tool \in BrowserTools

\* request r issues page operation number n in this step
Issues(r, n) == req'[r].pc = n /\ req[r].pc # n

ScreenshotCalls == {"element.screenshot", "page.screenshot"}

\* C1 (SpecSeq: operations one after the other).  A close-browser call that
\* has completed leaves no session stored; a tool call that finds no session
\* launches a browser; and every page operation a tool call issues runs on a
\* stored session whose browser has not been closed: no handler finds the
\* session missing, no operation is issued on a closed browser.
C1_FreshSessionAfterClose ==
    /\ [](response.cause # "NullSession")
    /\ [](response.tool = "close-browser" => session = NoSession)
    /\ [][\A r \in Requests :
            /\ (StartsTool(r) /\ session = NoSession) => req'[r].pc = "launch"
            /\ (Issues(r, "op1") \/ Issues(r, "op2")) =>
                   /\ req'[r].target \in 1..Len(browsers')
                   /\ browsers'[req'[r].target] # "closed"]_vars

\* a page operation issued on the second session, the first browser closed
C1_Witness ==
    /\ req["r1"].pc = "op1"
    /\ "launch" \in req["r1"].calls
    /\ req["r1"].target = 2
    /\ browsers[1] = "closed"
    /\ session.browser = 2

\* C2.  At most one browser is launched and not closed, in every reachable
\* state.
C2_AtMostOneBrowser == Cardinality(LiveBrowsers) <= 1

\* C3.  Whenever a tool action or the current-page read uses the stored
\* session, its browser is connected; and a current-page read that finds the
\* stored session's browser disconnected answers with the no-session
\* indicator.
C3_NeverExposeDisconnected ==
    [][\A r \in Requests :
         /\ (\/ Issues(r, "op1")
             \/ Issues(r, "title")
             \/ Issues(r, "op2") /\ req[r].tool # "screenshot")
                => browsers[req'[r].target] = "connected"
         /\ (/\ req[r].pc = "idle"
             /\ \/ req'[r].tool = "read-resource"
                \/ /\ response'.to = r
                   /\ response'.arg.uri = "puppeteer://current-page"
             /\ session # NoSession
             /\ browsers[session.browser] # "connected")
                => response'.text = NoSessionText]_vars

\* C4 (SpecLog).  The buffer never holds more than LOG_LIMIT entries and is
\* the last min(n, LOG_LIMIT) of the n entries received since the last reset,
\* in the order of arrival.
C4_LogBufferFifo ==
    /\ Len(consoleLogs) <= LOG_LIMIT
    /\ Len(consoleLogs) = Min(Len(received), LOG_LIMIT)
    /\ \A i \in 1..Len(consoleLogs) :
           consoleLogs[i] = received[Len(received) - Len(consoleLogs) + i]

\* the 101st entry has arrived: the oldest is gone, the newest is there
C4_Witness ==
    /\ Len(received) = LOG_LIMIT + 1
    /\ consoleLogs[1] = received[2]
    /\ consoleLogs[LOG_LIMIT] = received[LOG_LIMIT + 1]

\* C5 as claimed.  A tick that finds a session idle for at least the
\* threshold evicts it: it never leaves such a session alone.
C5_EvictsAtThreshold ==
    (response.to = "timer" /\ response.kind = "skip" /\ session # NoSession)
        => ~(now - session.lastActivity >= SESSION_TIMEOUT)

\* C5 as amended.  A tick that finds a session idle for more than the
\* threshold does not leave it alone; a tick that evicts has called close on
\* the session's browser; and when that close settles the session is cleared
\* and the buffer empty.
C5_EvictsBeyondThreshold ==
    /\ []((response.to = "timer" /\ response.kind = "skip" /\ session # NoSession)
            => ~(now - session.lastActivity > SESSION_TIMEOUT))
    /\ []((response.to = "timer" /\ response.kind = "evict")
            => /\ tickPc \in ClosingPcs
               /\ tickPc = "closing" => browsers[session.browser] = "closed")
    /\ [][(tickPc \in ClosingPcs /\ tickPc' = "idle")
            => (session' = NoSession /\ consoleLogs' = <<>>)]_vars

\* the timer has called close on a session idle beyond the threshold, with
\* entries in the buffer
C5_Witness ==
    /\ tickPc = "closing"
    /\ session # NoSession
    /\ now - session.lastActivity > SESSION_TIMEOUT
    /\ browsers[session.browser] = "closed"
    /\ consoleLogs # <<>>

\* C6.  A tick evicts only a session idle for more than the threshold; a tool
\* call that succeeds leaves the session, if any, stamped with the time of its
\* completion; a tick that finds the session idle for no more than the
\* threshold changes neither the session nor the buffer.
C6_TickSparesActiveSession ==
    /\ []((response.to = "timer" /\ response.kind = "evict")
            => (session # NoSession /\ now - session.lastActivity > SESSION_TIMEOUT))
    /\ []((response.kind = "ok" /\ response.tool \in BrowserTools /\ session # NoSession)
            => session.lastActivity = now)
    /\ [][(response'.to = "timer" /\ session # NoSession
             /\ now - session.lastActivity <= SESSION_TIMEOUT)
            => (session' = session /\ consoleLogs' = consoleLogs /\ browsers' = browsers
                /\ tickPc' = "idle")]_vars

\* a tick leaves alone a session stamped by a tool call an idle time of
\* exactly the threshold before
C6_Witness ==
    /\ response.to = "timer"
    /\ response.kind = "skip"
    /\ session # NoSession
    /\ session.lastActivity = 0
    /\ now - session.lastActivity = SESSION_TIMEOUT
    /\ browsers[session.browser] = "connected"

\* C7.  navigate with a url of neither scheme fails and no engine call was
\* made for the request.
C7_InvalidUrlNeverInvokesEngine ==
    (response.tool = "navigate" /\ ~ValidUrl(response.arg.url))
        => (response.kind = "error" /\ response.calls = {})

\* C8.  When page.$ finds no element for screenshot's selector, the call fails
\* with element-not-found, no screenshot call was issued and lastActivity is
\* as before.
C8_ScreenshotElementNotFound ==
    [][\A r \in Requests :
         (req[r].tool = "screenshot" /\ Op1Done(r, "null", ShortDocs))
            => /\ response'.kind = "error"
               /\ response'.cause = "ElementNotFound"
               /\ response'.calls \cap ScreenshotCalls = {}
               /\ session' = session]_vars

C8_Witness ==
    /\ response.tool = "screenshot"
    /\ response.arg.selector
    /\ response.cause = "ElementNotFound"
    /\ "$" \in response.calls
    /\ session # NoSession

\* C9 (SpecText).  get-text without selector on a text of length L returns the
\* first TEXT_LIMIT characters and then the marker if L > TEXT_LIMIT, and the
\* text as it is otherwise.
C9_GetTextTruncation ==
    (response.tool = "get-text" /\ ~response.arg.selector /\ response.kind = "ok")
        => LET text == response.got
               out == response.text[2]
           IN IF Len(text) > TEXT_LIMIT
              THEN /\ Len(out) = TEXT_LIMIT + 3
                   /\ \A i \in 1..TEXT_LIMIT : out[i] = text[i]
                   /\ \A i \in 1..3 : out[TEXT_LIMIT + i] = "."
              ELSE out = text

\* a text of exactly TEXT_LIMIT characters was returned whole
C9_Witness ==
    /\ response.tool = "get-text"
    /\ ~response.arg.selector
    /\ response.kind = "ok"
    /\ Len(response.got) = TEXT_LIMIT
    /\ response.text[2] = response.got

\* C10.  A tool call that finds a session with a connected browser launches
\* nothing and leaves session, lastActivity, buffer and browsers as they are;
\* a launch starts only when no session is stored or its browser is not
\* connected.
C10_EnsureIdempotent ==
    [][\A r \in Requests :
         LET live == /\ session # NoSession
                     /\ session.browser \in 1..Len(browsers)
                     /\ browsers[session.browser] = "connected"
         IN /\ (StartsTool(r) /\ live)
                => /\ req'[r].pc # "launch"
                   /\ "launch" \notin req'[r].calls
                   /\ "launch" \notin response'.calls
                   /\ session' = session
                   /\ consoleLogs' = consoleLogs
                   /\ browsers' = browsers
            /\ Issues(r, "launch") => ~live]_vars

\* a tool call went on to its page operation on the session it found
C10_Witness ==
    /\ req["r1"].pc = "op1"
    /\ "launch" \notin req["r1"].calls
    /\ session.browser = req["r1"].target
    /\ consoleLogs # <<>>

\* C11 (SpecClose).  When the browser.close() of a closer has thrown, the
\* closer goes on: the close-browser tool answers with its confirmation, the
\* timer and the signal handler raise nothing, the session is cleared and the
\* buffer emptied; and a tool call that finds no session launches a browser.
C11_CloseIsBestEffort ==
    /\ [](response.tool = "close-browser" => response.kind = "ok")
    /\ [][\A r \in Requests :
            (req[r].pc = "closeFailed" /\ req'[r].pc # "closeFailed" /\ sigPc' # "exited")
               => /\ response'.to = r
                  /\ response'.kind = "ok"
                  /\ response'.text = <<"Browser session closed">>
                  /\ session' = NoSession
                  /\ consoleLogs' = <<>>]_vars
    /\ [][(tickPc = "closeFailed" /\ tickPc' # "closeFailed" /\ sigPc' # "exited")
            => /\ response'.kind # "error"
               /\ session' = NoSession
               /\ consoleLogs' = <<>>]_vars
    /\ [][(sigPc = "closeFailed" /\ sigPc' # "closeFailed")
            => /\ sigPc' = "exited"
               /\ response'.kind # "error"
               /\ session' = NoSession
               /\ consoleLogs' = <<>>]_vars
    /\ [][\A r \in Requests :
            (StartsTool(r) /\ session = NoSession)
               => (req'[r].pc = "launch" /\ "launch" \in req'[r].calls)]_vars

\* close-browser has answered although its close was called and closed no
\* browser; the session is cleared
C11_Witness ==
    /\ response.tool = "close-browser"
    /\ response.kind = "ok"
    /\ "close" \in response.calls
    /\ Len(browsers) = 1
    /\ browsers[1] = "connected"
    /\ session = NoSession
    /\ consoleLogs = <<>>

\* C12.  A close-browser call that finds no session answers at once with its
\* confirmation, calls nothing on the engine and leaves session, buffer,
\* browsers and requests as they are.
C12_CloseBrowserIdempotent ==
    [][\A r \in Requests :
         (session = NoSession /\ \E ok \in BOOLEAN : CloseBrowserTool(r, ok))
            => /\ response'.to = r
               /\ response'.kind = "ok"
               /\ response'.text = <<"Browser session closed">>
               /\ response'.calls = {}
               /\ UNCHANGED <<session, consoleLogs, browsers, listeners, req>>]_vars

\* close-browser answered without a close call, after the browser was closed
C12_Witness ==
    /\ response.tool = "close-browser"
    /\ response.kind = "ok"
    /\ response.calls = {}
    /\ Len(browsers) = 1
    /\ browsers[1] = "closed"
    /\ session = NoSession

\* C13.  In every reachable state with no session stored the buffer is empty.
C13_NoSessionNoLogs == session = NoSession => consoleLogs = <<>>

\* the stored session's browser is connected
LiveSession(s, bs) == s # NoSession /\ s.browser \in 1..Len(bs) /\ bs[s.browser] = "connected"

\* C14.  When launch, newPage, setUserAgent or setViewport throws, the tool
\* call fails with the session-creation error, launches nothing more, and the
\* stored session is as it was, which is no live session; and a tool call
\* that finds no live session starts with a launch.
C14_CreationFailurePropagates ==
    /\ [][\A r \in Requests :
            (\/ LaunchDone(r, FALSE)
             \/ NewPageDone(r, FALSE)
             \/ SetUserAgentDone(r, FALSE)
             \/ SetViewportDone(r, FALSE))
               => /\ response'.to = r
                  /\ response'.kind = "error"
                  /\ response'.cause = "SessionCreation"
                  /\ response'.calls = req[r].calls
                  /\ req'[r] = Idle
                  /\ session' = session
                  /\ ~LiveSession(session', browsers')
                  /\ browsers' = browsers]_vars
    /\ [][\A r \in Requests :
            (StartsTool(r) /\ ~LiveSession(session, browsers))
               => /\ req'[r].pc = "launch"
                  /\ req'[r].calls = {"launch"}]_vars

\* a tool call failed because newPage threw after the launch; no session is
\* stored
C14_Witness ==
    /\ response.kind = "error"
    /\ response.cause = "SessionCreation"
    /\ response.calls = {"launch", "newPage"}
    /\ session = NoSession
    /\ req["r1"].pc = "idle"

\* C15.  A step in which a tool call fails leaves the stored session as it
\* is, unless that step has just stored a session it created; a step in which
\* a tool call goes on to a page operation does not stamp the session; and a
\* tool call succeeds only in the step in which its last page operation
\* resolves, which stamps the session, if any, with the time of that step.
C15_ActivityStampedOnSuccessOnly ==
    [][\A r \in Requests :
         LET created == /\ req[r].pc = "setViewport"
                        /\ session' = [browser |-> req[r].browser, lastActivity |-> now]
             replies == response'.to = r /\ response'.tool \in BrowserTools
         IN /\ (replies /\ response'.kind = "error") => (session' = session \/ created)
            /\ (Issues(r, "op1") \/ Issues(r, "op2")) => (session' = session \/ created)
            /\ (replies /\ response'.kind = "ok")
                  => /\ \/ req[r].pc = "op2"
                        \/ /\ req[r].pc = "op1"
                           /\ SecondOp(req[r].tool, req[r].arg) = "none"
                     /\ response'.calls = req[r].calls
                     /\ session' = IF session = NoSession THEN NoSession
                                   ELSE [session EXCEPT !.lastActivity = now]]_vars

\* a page operation threw long after the session's last stamp, which is as it
\* was
C15_Witness ==
    /\ response.kind = "error"
    /\ response.cause = "Engine"
    /\ response.tool \in BrowserTools
    /\ session # NoSession
    /\ session.lastActivity = 0
    /\ now = SESSION_TIMEOUT

\* C16.  A read of a uri that is neither of the two resources fails with an
\* error of the invalid-request category.
C16_UnknownUriInvalidRequest ==
    (response.tool = "read-resource" /\ response.arg.uri = "puppeteer://other")
        => (response.kind = "error" /\ response.code = "InvalidRequest")

ToolCauses == {"UrlScheme", "NullSession", "SessionCreation", "Engine", "ElementNotFound",
               "UnknownTool"}

\* C17.  Every error a tool call answers with is of the internal-error
\* category and carries what was thrown; a call of an unknown tool answers
\* with such an error; and the step in which a tool call fails ends the
\* request with that one reply: no engine call is added, nothing is launched.
C17_UniformInternalError ==
    /\ []((response.kind = "error" /\ response.tool # "read-resource")
            => /\ response.code = "InternalError"
               /\ response.cause \in ToolCauses
               /\ response.to \in Requests)
    /\ [](response.tool = "unknown"
            => (response.kind = "error" /\ response.cause = "UnknownTool"))
    /\ [][\A r \in Requests :
            (response'.to = r /\ response'.kind = "error"
               /\ response'.tool # "read-resource")
               => /\ req'[r] = Idle
                  /\ response'.calls = req[r].calls
                  /\ browsers' = browsers]_vars

\* the call of an unknown tool answered with the wrapped error
C17_Witness ==
    /\ response.tool = "unknown"
    /\ response.kind = "error"
    /\ response.code = "InternalError"
    /\ response.cause = "UnknownTool"
    /\ response.to = "r1"

\* C18.  When close-browser has answered, no session is stored and no request
\* is in flight; from such a state every step other than the start of a tool
\* call leads to such a state; and a read of current-page that finds no
\* session stored answers at once with the no-session object.
C18_CurrentPageAfterClose ==
    /\ []((response.tool = "close-browser" /\ response.kind = "ok")
            => (session = NoSession /\ req["r1"].pc = "idle"))
    /\ [][(session = NoSession /\ req["r1"].pc = "idle" /\ ~StartsTool("r1"))
            => (session' = NoSession /\ req'["r1"].pc = "idle")]_vars
    /\ [][\A r \in Requests :
            (/\ session = NoSession
             /\ req[r].pc = "idle"
             /\ \/ Issues(r, "title")
                \/ /\ response'.to = r
                   /\ response'.tool = "read-resource"
                   /\ response'.arg.uri = "puppeteer://current-page")
               => /\ response'.to = r
                  /\ response'.kind = "ok"
                  /\ response'.text = NoSessionText
                  /\ response'.calls = {}
                  /\ req'[r].pc = "idle"]_vars

\* current-page read as the no-session object after the browser was closed
C18_Witness ==
    /\ response.tool = "read-resource"
    /\ response.arg.uri = "puppeteer://current-page"
    /\ response.text = NoSessionText
    /\ session = NoSession
    /\ Len(browsers) = 1
    /\ browsers[1] = "closed"

\* C19 (SpecCloseLive).  A signal that finds a session calls close on its
\* browser and does not exit in that step, one that finds none exits; the
\* handler leaves its await only by exiting, with the session cleared and the
\* buffer emptied in the same step; no session is stored once the process
\* has exited; and the handler, once it awaits the close, exits, whether the
\* close succeeds or throws.
C19_SignalClosesThenExits ==
    /\ [](sigPc = "exited" => session = NoSession)
    /\ [][(sigPc = "running" /\ sigPc' # "running")
            => IF session # NoSession
               THEN /\ sigPc' \in ClosingPcs
                    /\ session' = session
                    /\ sigPc' = "closing" => browsers'[session.browser] = "closed"
               ELSE sigPc' = "exited"]_vars
    /\ [][(sigPc \in ClosingPcs /\ sigPc' # sigPc)
            => /\ sigPc' = "exited"
               /\ session' = NoSession
               /\ consoleLogs' = <<>>]_vars
    /\ (sigPc = "closing" ~> sigPc = "exited")
    /\ (sigPc = "closeFailed" ~> sigPc = "exited")

\* the process has exited and no session is stored, while the browser that
\* was stored is still running: a close of it has thrown
C19_Witness ==
    /\ sigPc = "exited"
    /\ session = NoSession
    /\ consoleLogs = <<>>
    /\ Len(browsers) = 1
    /\ browsers[1] = "connected"
    /\ 1 \in listeners

\* C20.  A step of a resource read, of list-resources or of list-tools
\* changes neither the session nor its lastActivity, the buffer, the browsers
\* or the listeners, and starts no close; and a tick that follows the answer
\* to such a request and finds the session idle beyond the threshold evicts
\* it.
C20_ReadsAreReadOnly ==
    /\ [][\A r \in Requests :
            (\/ /\ req[r].pc = "idle"
                /\ response'.to = r
                /\ response'.tool \in {"read-resource", "list-resources", "list-tools"}
             \/ Issues(r, "title")
             \/ req[r].pc = "title" /\ req'[r].pc # "title")
               => /\ UNCHANGED <<session, consoleLogs, browsers, listeners, tickPc, sigPc>>
                  /\ "launch" \notin req'[r].calls \cup response'.calls
                  /\ "close" \notin req'[r].calls \cup response'.calls]_vars
    /\ [][(/\ response.tool \in {"read-resource", "list-resources", "list-tools"}
           /\ response'.to = "timer"
           /\ session # NoSession
           /\ now - session.lastActivity > SESSION_TIMEOUT)
            => response'.kind = "evict"]_vars

\* the current page was read from a session idle beyond the threshold
C20_Witness ==
    /\ response.tool = "read-resource"
    /\ response.arg.uri = "puppeteer://current-page"
    /\ response.kind = "ok"
    /\ "title" \in response.calls
    /\ session # NoSession
    /\ now - session.lastActivity > SESSION_TIMEOUT

\* C21.  A call of a tool that is not in the table fails in the step in which
\* it arrives, with no engine call made for it, and leaves the session, its
\* lastActivity, the buffer, the browsers and the listeners as they are.
C21_UnknownToolTouchesNothing ==
    [][\A r \in Requests :
         (/\ req[r].pc = "idle"
          /\ \/ req'[r].tool = "unknown"
             \/ response'.to = r /\ response'.tool = "unknown")
            => /\ response'.to = r
               /\ response'.kind = "error"
               /\ response'.cause = "UnknownTool"
               /\ response'.calls = {}
               /\ req'[r] = Idle
               /\ UNCHANGED <<session, consoleLogs, browsers, listeners>>]_vars

\* an unknown tool was called with no session stored: none was created
C21_Witness ==
    /\ response.tool = "unknown"
    /\ response.kind = "error"
    /\ response.calls = {}
    /\ session = NoSession
    /\ browsers = <<>>

\* C22.  Nothing keeps a close away from a tool call that is between
\* ensureBrowser and a page operation: a tick that finds the session idle
\* beyond the threshold evicts it though a tool call awaits a page operation;
\* when the close settles the session is cleared and the tool call is still
\* in flight; and a tool call that then needs the page for its next operation
\* fails instead of issuing it.
C22_CloseOverlapsToolCall ==
    /\ [][(/\ response'.to = "timer"
           /\ req["r1"].pc \in {"op1", "op2"}
           /\ session # NoSession
           /\ now - session.lastActivity > SESSION_TIMEOUT)
            => (response'.kind = "evict" /\ tickPc' \in ClosingPcs /\ req' = req)]_vars
    /\ [][(tickPc \in ClosingPcs /\ tickPc' = "idle" /\ req["r1"].pc \in {"op1", "op2"})
            => (session' = NoSession /\ req' = req)]_vars
    /\ [][\A r \in Requests :
            (/\ req[r].pc = "op1"
             /\ req'[r].pc # "op1"
             /\ session = NoSession
             /\ SecondOp(req[r].tool, req[r].arg) \notin {"none", "element.screenshot"})
               => /\ req'[r] = Idle
                  /\ response'.to = r
                  /\ response'.kind = "error"
                  /\ response'.cause \in {"Engine", "ElementNotFound", "NullSession"}]_vars

\* the session was cleared while type awaited its click: the call went on to
\* its second operation and found no session
C22_Witness ==
    /\ response.tool = "type"
    /\ response.arg.flag
    /\ response.kind = "error"
    /\ response.cause = "NullSession"
    /\ session = NoSession
    /\ tickPc = "idle"

\* C23 (SpecRead).  A read of console-logs answers with the placeholder when
\* the buffer is empty, and otherwise with the entries of the buffer in their
\* order, a newline between each two.
C23_ConsoleLogsJoined ==
    (response.tool = "read-resource" /\ response.arg.uri = "puppeteer://console-logs")
        => /\ response.kind = "ok"
           /\ IF consoleLogs = <<>>
              THEN response.text = <<"No console logs available">>
              ELSE /\ Len(response.text) = 2 * Len(consoleLogs) - 1
                   /\ \A i \in 1..Len(consoleLogs) : response.text[2 * i - 1] = consoleLogs[i]
                   /\ \A i \in 1..(Len(consoleLogs) - 1) : response.text[2 * i] = "\n"

\* a buffer of three entries was read
C23_Witness ==
    /\ response.tool = "read-resource"
    /\ response.arg.uri = "puppeteer://console-logs"
    /\ Len(consoleLogs) = 3
    /\ Len(response.text) = 5
    /\ response.text[1] = consoleLogs[1]
    /\ response.text[5] = consoleLogs[3]

\* C24.  No tool call fails because its handler found this.session null when
\* it went on to a page operation.
C24_PageOperationsFindSession ==
    response.tool \in BrowserTools => response.cause # "NullSession"

\* C25.  When a close that closed its browser settles while the stored
\* session is one with a connected browser, that session and the buffer are
\* left as they are.
C25_CloseClearsOnlyItsSession ==
    [][(/\ \/ (tickPc = "closing" /\ tickPc' = "idle")
           \/ (\E r \in Requests : req[r].pc = "closing" /\ req'[r].pc = "idle")
        /\ sigPc' # "exited"
        /\ session # NoSession
        /\ browsers[session.browser] = "connected")
          => (session' = session /\ consoleLogs' = consoleLogs)]_vars

\* C26.  While a session is stored, every entry of the buffer comes from the
\* page of that session.
C26_BufferBelongsToSession ==
    session # NoSession
        => \A i \in 1..Len(consoleLogs) : consoleLogs[i][1] = session.browser

\* C27.  When newPage, setUserAgent or setViewport throws, the browser that
\* was launched for the request is not left connected.
C27_NoOrphanAfterFailedCreation ==
    [][\A r \in Requests :
         (/\ req[r].pc \in {"newPage", "setUserAgent", "setViewport"}
          /\ response'.to = r
          /\ response'.cause = "SessionCreation")
            => browsers'[req[r].browser] # "connected"]_vars

====
